---- MODULE Spec2Model ----
(***************************************************************************)
(* Retrieval, localization and re-ranking of timcanby/pattern-spotting     *)
(* (src/search/search.py, src/search/localization.py).                     *)
(*                                                                         *)
(* Arrays are functions over 0..n-1 (numpy's indices); the index arrays    *)
(* the code returns are sequences of such indices.  Feature maps and       *)
(* vectors hold whole numbers and the arithmetic is exact: a ratio is a    *)
(* pair <<num, den>>, and a cosine score is held by the pooled vector, the *)
(* query and the exponent that determine it, and compared exactly.  The    *)
(* rounding of floating point is not modelled.  What numpy leaves open     *)
(* (the order argpartition and an unstable argsort give equal values) is   *)
(* a choice among all the outcomes.                                        *)
(***************************************************************************)
EXTENDS Integers, Sequences, FiniteSets, TLC

VARIABLES
    pc,            \* where the modelled call stands
    \* search.py, query()
    feature_store, \* the (n, dim) array of stored representations
    query_features,\* the representation queried for
    top_n,         \* how many results are asked for
    indices,       \* the returned indices
    sims,          \* the returned similarities
    \* localization.py, _area_generator()
    shape,         \* (height, width)
    step_size,
    aspect_ratio,  \* None, or width / height as <<num, den>>
    max_aspect_ratio_div, \* <<num, den>>
    frame,         \* the generator's loop counters <<x1, x2, y1, y2>>
    \* localization.py, integral images and scores
    features,      \* the feature map, features[y][x] a vector
    exp,
    integral_image,
    area,          \* (left, upper, right, lower)
    value,         \* the result of _integral_image_sum
    \* localization.py, area_refinement()
    query,         \* the localization representation searched for
    area_score,
    best_area,
    best_score,
    step,
    it,
    scored,        \* the areas scored in the last sweep, in order
    \* search.py, search_roi()
    query_repr,
    localization_repr,
    crop_shape,    \* crop.shape[1:3], (height, width) of the query crop
    get_features,  \* search_model.get_features: index -> feature map
    idx,           \* the position of stage 2's loop
    bbox,          \* what localize returned for the candidate
    score,
    refine_args,   \* what the arguments of the area_refinement call are bound to
    error,         \* the exception that ended search_roi, or None
    bounding_box_reprs,
    reranking_indices,
    avg_repr,      \* the expanded query: [sum, count], the mean sum / count
    exp_indices,
    similarity     \* stage 3's similarities, each <<num, den>>

rankVars == <<feature_store, query_features, top_n, indices, sims>>

genVars == <<shape, step_size, aspect_ratio, max_aspect_ratio_div, frame>>

locVars == <<features, exp, integral_image, area, value>>

refVars == <<query, area_score, best_area, best_score, step, it, scored>>

searchVars ==
    <<query_repr, localization_repr, crop_shape, get_features, idx, bbox, score,
      refine_args, error>>

expVars == <<bounding_box_reprs, reranking_indices, avg_repr, exp_indices, similarity>>

vars == <<pc, rankVars, genVars, locVars, refVars, searchVars, expVars>>

None == "None"

----------------------------------------------------------------------------
(* Bounds of the model *)

\* query(): the largest number of stored vectors
MaxN == 3

\* _area_generator(): the largest height and width of the grid
MaxSide == 4

\* _area_generator(): the largest step size
MaxStepSize == 3

\* integral images: the largest height of a feature map
MaxH == 2

\* area_refinement(): the largest width of a feature map
MaxW == 4

\* search_roi(): the largest number of stored images
MaxStore == 2

\* stage 3: the largest number of stage-2 candidates
MaxCand == 6

----------------------------------------------------------------------------
(* numpy / Python helpers *)

Min(a, b) == IF a <= b THEN a ELSE b

Max(a, b) == IF a >= b THEN a ELSE b

Abs(a) == IF a < 0 THEN -a ELSE a

\* len() of an array held as a function over 0..n-1
Len0(array) == Cardinality(DOMAIN array)

RECURSIVE DotFrom(_, _, _)
DotFrom(a, b, i) == IF i > Len(a) THEN 0 ELSE a[i] * b[i] + DotFrom(a, b, i + 1)

\* a.dot(b) of two vectors
Dot(a, b) == DotFrom(a, b, 1)

\* every ordering of the indices of an array of length n
Orderings(n) == {[i \in 1..n |-> f[i - 1]] : f \in Permutations(0..(n - 1))}

\* np.argpartition(array, kth): any ordering of the indices in which
\* position kth (negative: from the end) holds what a sort would put there,
\* nothing larger stands before it and nothing smaller after it.  Which of
\* these numpy returns is not specified, so it is a set.
ArgPartition(array, kth) ==
    LET n == Len0(array)
        kk == IF kth < 0 THEN kth + n ELSE kth
    IN  IF kk < 0 \/ kk >= n
        THEN {}
        ELSE {p \in Orderings(n) :
                /\ \A i \in 1..(kk + 1) : array[p[i]] <= array[p[kk + 1]]
                /\ \A i \in (kk + 1)..n : array[p[i]] >= array[p[kk + 1]]}

\* seq[start:] as Python slices: a negative start counts from the end,
\* and -0 is 0
SliceFrom(seq, start) ==
    LET n == Len(seq)
        s == IF start < 0 THEN Max(n + start, 0) ELSE Min(start, n)
    IN  [i \in 1..(n - s) |-> seq[s + i]]

\* seq[:stop] as Python slices
SliceTo(seq, stop) ==
    LET n == Len(seq)
        e == IF stop < 0 THEN Max(n + stop, 0) ELSE Min(stop, n)
    IN  [i \in 1..e |-> seq[i]]

\* seq[::-1]
Reversed(seq) == [i \in 1..Len(seq) |-> seq[Len(seq) + 1 - i]]

\* the entries of a sequence
Range(seq) == {seq[i] : i \in DOMAIN seq}

\* ix[np.argsort(array[ix])]: the indices ix reordered by non-decreasing
\* value; the default sort is not stable, so equal values come in any order
SortedBy(array, ix) ==
    {s \in {[i \in 1..Len(ix) |-> ix[o[i] + 1]] : o \in Orderings(Len(ix))} :
        \A i \in 1..(Len(ix) - 1) : array[s[i]] <= array[s[i + 1]]}

----------------------------------------------------------------------------
(* localization.py: _area_generator *)

\* the default of max_aspect_ratio_div, 1.0
DefaultRatioDiv == <<1, 1>>

\* range(start, stop, step): whether a counter is still inside; counting
\* the stop itself in
InRangeInclusive(v, stop) == v <= stop

\* range(start, stop, step): whether a counter is still inside
InRange(v, stop) == v < stop

\* the generator before its first pass, and after its last
Start == <<-1, -1, -1, -1>>

Exhausted == <<-2, -2, -2, -2>>

\* aspect_ratio=None
NoRatio == <<>>

\* best_area = None
NoArea == <<>>

\* best_score = -np.inf
NegInf == [pool |-> <<>>, query |-> <<>>, exp |-> 0]

\* the counters of the first pass through the four loops, or Exhausted
FirstCandidate(sh, st) ==
    IF InRange(0, sh[2]) /\ InRange(st - 1, sh[2])
       /\ InRange(0, sh[1]) /\ InRange(st - 1, sh[1])
    THEN <<0, st - 1, 0, st - 1>>
    ELSE Exhausted

\* the counters <<x1, x2, y1, y2>> of the next pass through the loops:
\* y2 moves fastest, then y1, then x2, then x1
NextCandidate(sh, st, c) ==
    IF c = Start THEN FirstCandidate(sh, st)
    ELSE IF InRange(c[4] + st, sh[1]) THEN <<c[1], c[2], c[3], c[4] + st>>
    ELSE IF InRange(c[3] + st, sh[1]) /\ InRange(c[3] + st + st - 1, sh[1])
         THEN <<c[1], c[2], c[3] + st, c[3] + st + st - 1>>
    ELSE IF InRange(c[2] + st, sh[2]) THEN <<c[1], c[2] + st, 0, st - 1>>
    ELSE IF InRange(c[1] + st, sh[2]) /\ InRange(c[1] + st + st - 1, sh[2])
         THEN <<c[1] + st, c[1] + st + st - 1, 0, st - 1>>
    ELSE Exhausted

\* the area (x1, y1, x2, y2) of the loop counters
AreaOf(c) == <<c[1], c[3], c[2], c[4]>>

\* `if aspect_ratio:` is false for None and for 0
Truthy(ar) == ar # NoRatio /\ ar[1] # 0

\* a / b of two ratios
RatDiv(a, b) == <<a[1] * b[2], a[2] * b[1]>>

\* a > b of two ratios with positive denominators
RatGT(a, b) == a[1] * b[2] > b[1] * a[2]

\* log(x) without the abs(): the ratio itself
LogNoAbs(x) == x

\* abs(np.log(x)) of a positive ratio x, held as the ratio whose logarithm
\* it is: x where x >= 1 and 1 / x below, as -log(x) = log(1 / x)
AbsLog(x) == IF x[1] >= x[2] THEN x ELSE <<x[2], x[1]>>

\* lines 43-45: whether the area of the counters c is skipped.  log is
\* increasing, so abs(log(x)) > log(m) is decided on the ratios.
Skipped(ar, div, c) ==
    LET area_aspect_ratio == <<c[2] - c[1] + 1, c[4] - c[3] + 1>>
    IN  RatGT(AbsLog(RatDiv(ar, area_aspect_ratio)), div)

RECURSIVE Resume(_, _, _, _, _)
\* the generator resumed from the counters c: the counters of the next area
\* it yields, or Exhausted
Resume(sh, st, ar, div, c) ==
    LET n == NextCandidate(sh, st, c)
    IN  IF n = Exhausted THEN n
        ELSE IF Truthy(ar) /\ Skipped(ar, div, n)
             THEN Resume(sh, st, ar, div, n)
             ELSE n

----------------------------------------------------------------------------
(* localization.py: integral images and scores *)

RECURSIVE Pow(_, _)
\* np.power(b, e) for a whole exponent
Pow(b, e) == IF e = 0 THEN 1 ELSE b * Pow(b, e - 1)

VecAdd(a, b) == [i \in DOMAIN a |-> a[i] + b[i]]

VecSub(a, b) == [i \in DOMAIN a |-> a[i] - b[i]]

Height(img) == Len0(img)

Width(img) == Len0(img[0])

RECURSIVE CumSum0(_, _, _)
\* np.cumsum(image, axis=0) at [y, x]
CumSum0(img, y, x) ==
    IF y = 0 THEN img[0][x] ELSE VecAdd(CumSum0(img, y - 1, x), img[y][x])

RECURSIVE CumSum1(_, _, _)
\* np.cumsum(image, axis=1) at [y, x]
CumSum1(img, y, x) ==
    IF x = 0 THEN img[y][0] ELSE VecAdd(CumSum1(img, y, x - 1), img[y][x])

\* _compute_integral_image(image, exp).  The entries are whole numbers, so
\* np.nan_to_num has nothing to replace.
ComputeIntegralImage(img, e) ==
    LET powered == [y \in DOMAIN img |-> [x \in DOMAIN img[y] |->
                        [c \in DOMAIN img[y][x] |-> Pow(img[y][x][c], e)]]]
        down == [y \in DOMAIN img |-> [x \in DOMAIN img[y] |-> CumSum0(powered, y, x)]]
    IN  [y \in DOMAIN img |-> [x \in DOMAIN img[y] |-> CumSum1(down, y, x)]]

\* _integral_image_sum with the left strip taken up to x1, not x1 - 1
IntegralImageSumLeftAtX1(ii, a) ==
    LET x1 == a[1]
        y1 == a[2]
        x2 == a[3]
        y2 == a[4]
        whole == ii[y2][x2]
        v1 == IF x1 > 0 THEN VecSub(whole, ii[y2][x1]) ELSE whole
        v2 == IF y1 > 0 THEN VecSub(v1, ii[y1 - 1][x2]) ELSE v1
        v3 == IF x1 > 0 /\ y1 > 0 THEN VecAdd(v2, ii[y1 - 1][x1]) ELSE v2
    IN  [c \in DOMAIN v3 |-> Max(0, v3[c])]

\* _integral_image_sum(integral_image, area)
IntegralImageSum(ii, a) ==
    LET x1 == a[1]
        y1 == a[2]
        x2 == a[3]
        y2 == a[4]
        whole == ii[y2][x2]
        v1 == IF x1 > 0 THEN VecSub(whole, ii[y2][x1 - 1]) ELSE whole
        v2 == IF y1 > 0 THEN VecSub(v1, ii[y1 - 1][x2]) ELSE v1
        v3 == IF x1 > 0 /\ y1 > 0 THEN VecAdd(v2, ii[y1 - 1][x1 - 1]) ELSE v2
    IN  [c \in DOMAIN v3 |-> Max(0, v3[c])]

\* _compute_area_score(query, area, integral_image, exp): the cosine of the
\* angle between q and the pooled vector pool ^ (1 / exp), held by what
\* determines it.  A cosine is within [-1, 1], so np.clip leaves it.
ComputeAreaScore(q, a, ii, e) ==
    [pool |-> IntegralImageSum(ii, a), query |-> q, exp |-> e]

\* a vector along one axis of the plane
IsAxis(q) == Len(q) = 2 /\ ((q[1] > 0 /\ q[2] = 0) \/ (q[1] = 0 /\ q[2] > 0))

Sign(n) == IF n > 0 THEN 1 ELSE IF n < 0 THEN -1 ELSE 0

\* a > b of two scores for the same query and exponent.
\* Along an axis c the cosine is p[c] / |p| with p = pool ^ (1 / exp), which
\* grows with pool[c] / pool[other], for every exponent.  For exp = 1 the
\* cosine is (pool . q) / (|pool| |q|): compared by sign and square.
ScoreGT(a, b) ==
    IF b = NegInf THEN a # NegInf
    ELSE IF a = NegInf THEN FALSE
    ELSE IF IsAxis(a.query)
    THEN LET c == IF a.query[1] > 0 THEN 1 ELSE 2
             o == 3 - c
         IN  a.pool[c] * b.pool[o] > b.pool[c] * a.pool[o]
    ELSE LET na == Dot(a.pool, a.query)
             nb == Dot(b.pool, b.query)
             da == Dot(a.pool, a.pool)
             db == Dot(b.pool, b.pool)
         IN  Sign(na) * na * na * db > Sign(nb) * nb * nb * da

\* the upper limit of the left / upper coordinate and the lower limit of the
\* right / lower one left out: every coordinate limited by the image alone
MinRangesImageOnly(ba) == <<0, 0, 0, 0>>

\* min_ranges = [0, 0, best_area[0], best_area[1]]
MinRanges(ba) == <<0, 0, ba[1], ba[2]>>

\* max_ranges = [best_area[2], best_area[3], width-1, height-1]
MaxRanges(ba, ii) == <<ba[3], ba[4], Width(ii) - 1, Height(ii) - 1>>

\* the eight areas one sweep scores, in order: per coordinate the decrease
\* and then the increase, each from best_area
SweepAreas(ba, st, ii) ==
    [i \in 1..8 |->
        LET coord == (i + 1) \div 2
        IN  IF i % 2 = 1
            THEN [ba EXCEPT ![coord] = Max(ba[coord] - st, MinRanges(ba)[coord])]
            ELSE [ba EXCEPT ![coord] = Min(ba[coord] + st, MaxRanges(ba, ii)[coord])]]

\* `if score < iter_best_score`, the comparison turned around
Worse(s, ib) == ScoreGT(ib, s)

\* `if score > iter_best_score`
Improves(s, ib) == ScoreGT(s, ib)

RECURSIVE SweepFrom(_, _, _, _, _, _, _)
\* lines 138-153 from the i-th scored area on: (iter_best_area, iter_best_score)
SweepFrom(q, ii, e, cands, i, iba, ibs) ==
    IF i > Len(cands) THEN <<iba, ibs>>
    ELSE LET s == ComputeAreaScore(q, cands[i], ii, e)
         IN  IF Improves(s, ibs)
             THEN SweepFrom(q, ii, e, cands, i + 1, cands[i], s)
             ELSE SweepFrom(q, ii, e, cands, i + 1, iba, ibs)

\* one pass of the inner loop, lines 132-156: (best_area, best_score)
Sweep(q, ii, e, ba, bs, st) == SweepFrom(q, ii, e, SweepAreas(ba, st, ii), 1, ba, bs)

\* iterations=10
Iterations == 10

\* max_step=3
MaxStep == 3

\* AML_EXP = 10.0
AML_EXP == 10

\* step_size=3 of localize
LocalizeStepSize == 3

\* aspect_ratio_factor=1.1 of localize
AspectRatioFactor == <<11, 10>>

RECURSIVE LocalizeFrom(_, _, _, _, _, _, _)
\* the loop of localize, lines 190-195, from the generator's counters c on
LocalizeFrom(q, ii, sh, ar, c, ba, bs) ==
    LET n == Resume(sh, LocalizeStepSize, ar, AspectRatioFactor, c)
    IN  IF n = Exhausted THEN <<ba, bs>>
        ELSE LET s == ComputeAreaScore(q, AreaOf(n), ii, AML_EXP)
             IN  IF ScoreGT(s, bs)
                 THEN LocalizeFrom(q, ii, sh, ar, n, AreaOf(n), s)
                 ELSE LocalizeFrom(q, ii, sh, ar, n, ba, bs)

\* localize(query, features, query_image_shape): (best_area, best_score)
Localize(q, fm, qshape) ==
    LET query_aspect_ratio == <<qshape[2], qshape[1]>>
        ii == ComputeIntegralImage(fm, AML_EXP)
    IN  LocalizeFrom(q, ii, <<Height(ii), Width(ii)>>, query_aspect_ratio,
                     Start, NoArea, NegInf)

----------------------------------------------------------------------------
(* search.py: _descending_argsort, _ascending_argsort, query *)

\* the slice [-k:] read as "the last k entries", which is nothing for k = 0
LastKOnly(seq, k) == [i \in 1..k |-> seq[Len(seq) - k + i]]

\* the slice [-k:] of _descending_argsort
TopSlice(seq, k) == SliceFrom(seq, -k)

\* the index arrays a sort of the slices can return.  The sort orders the
\* entries of a slice whatever their order in it, so one slice stands for
\* all the slices with the same entries.
SortedSlices(array, slices) ==
    UNION {SortedBy(array, CHOOSE sl \in slices : Range(sl) = S) :
            S \in {Range(sl) : sl \in slices}}

\* _descending_argsort without the final [::-1]
DescendingNoReverse(array, k) ==
    SortedSlices(array, {TopSlice(p, k) : p \in ArgPartition(array, -k)})

\* _descending_argsort(array, k): the possible results
DescendingArgsort(array, k) ==
    {Reversed(s) : s \in
        SortedSlices(array, {TopSlice(p, k) : p \in ArgPartition(array, -k)})}

\* _ascending_argsort(array, k): the possible results
AscendingArgsort(array, k) ==
    SortedSlices(array, {SliceTo(p, k) : p \in ArgPartition(array, k - 1)})

\* similarity = feature_store.dot(query_features.T).flatten()
Similarity(qf, fs) == [i \in DOMAIN fs |-> Dot(fs[i], qf)]

\* query(query_features, feature_store, top_n): the possible index arrays
QueryIndices(qf, fs, tn) ==
    LET k == Min(Len0(fs), Abs(tn))
    IN  IF tn >= 0
        THEN DescendingArgsort(Similarity(qf, fs), k)
        ELSE AscendingArgsort(Similarity(qf, fs), k)

\* array[idx] for an index array idx
Take(array, ix) == [i \in 1..Len(ix) |-> array[ix[i]]]

\* avg_query_exp_n = 5
AvgQueryExpN == 5

\* reranking_indices[:avg_query_exp_n] taken as if it always held
\* avg_query_exp_n entries, the last one repeated where there are fewer
BestRerankPadded(rr) ==
    [i \in 1..AvgQueryExpN |-> rr[Min(i, Len(rr))]]

\* best_rerank_indices = reranking_indices[:avg_query_exp_n]
BestRerankIndices(rr) == SliceTo(rr, AvgQueryExpN)

RECURSIVE VecSum(_, _)
\* the sum of the first n vectors of a sequence of vectors of the plane
VecSum(vs, n) == IF n = 0 THEN <<0, 0>> ELSE VecAdd(VecSum(vs, n - 1), vs[n])

\* np.average(np.vstack((bounding_box_reprs[best_rerank_indices],
\* query_repr)), axis=0): the mean sum / count, held as [sum, count]
AverageRepr(reprs, best, qr) ==
    LET stacked == Take(reprs, best) \o <<qr>>
    IN  [sum |-> VecSum(stacked, Len(stacked)), count |-> Len(stacked)]

\* the names bound in search_roi's frame when line 106 runs
SearchLocals ==
    {"search_model", "image", "roi", "top_n", "verbose", "avg_query_exp_n",
     "crop", "query_features", "query_repr", "localization_repr", "scale_x",
     "scale_y", "timer", "start", "end", "indices", "sims", "feature_shapes",
     "bounding_boxes", "bounding_box_reprs", "idx", "feature_idx", "features",
     "bbox", "score"}

\* the names bound in the module search.py
SearchGlobals ==
    {"os", "sys", "argparse", "np", "crop_image", "convert_image",
     "compute_features", "compute_representation",
     "compute_localization_representation", "SearchModel", "localize",
     "area_refinement", "_descending_argsort", "_ascending_argsort", "query",
     "search_roi"}

\* the arguments of the call of area_refinement, lines 106-107
RefineCallNames == <<"query", "best_area", "best_score", "integral_image">>

\* what a name evaluates to in search_roi: its frame's variable, else the
\* module's, else nothing (a NameError)
Resolve(name) ==
    IF name \in SearchLocals THEN <<"local", name>>
    ELSE IF name \in SearchGlobals THEN <<"global", name>>
    ELSE <<"undefined", name>>

----------------------------------------------------------------------------
(* The variables a specification does not use *)

RankIdle ==
    /\ feature_store = None /\ query_features = None /\ top_n = None
    /\ indices = None /\ sims = None

GenIdle ==
    /\ shape = None /\ step_size = None /\ aspect_ratio = None
    /\ max_aspect_ratio_div = None /\ frame = None

LocIdle ==
    /\ features = None /\ exp = None /\ integral_image = None
    /\ area = None /\ value = None

RefIdle ==
    /\ query = None /\ area_score = None /\ best_area = None /\ best_score = None
    /\ step = None /\ it = None /\ scored = None

SearchIdle ==
    /\ query_repr = None /\ localization_repr = None /\ crop_shape = None
    /\ get_features = None /\ idx = None /\ bbox = None /\ score = None
    /\ refine_args = None /\ error = None

ExpIdle ==
    /\ bounding_box_reprs = None /\ reranking_indices = None /\ avg_repr = None
    /\ exp_indices = None /\ similarity = None

----------------------------------------------------------------------------
(* query(): one call on a store, a query and a top_n drawn from the bounds *)

\* the representation vectors
Vectors == {<<0, 1>>, <<1, 0>>, <<1, 1>>, <<-1, 2>>, <<2, 1>>}

Stores == UNION {[0..(n - 1) -> Vectors] : n \in 1..MaxN}

RankInit ==
    /\ pc = "query"
    /\ feature_store \in Stores
    /\ query_features \in Vectors
    /\ top_n \in (-1)..(MaxN + 1)
    /\ indices = <<>>
    /\ sims = <<>>
    /\ GenIdle /\ LocIdle /\ RefIdle /\ SearchIdle /\ ExpIdle

\* the call query(query_features, feature_store, top_n)
Query ==
    /\ pc = "query"
    /\ \E ix \in QueryIndices(query_features, feature_store, top_n) :
        /\ indices' = ix
        /\ sims' = Take(Similarity(query_features, feature_store), ix)
    /\ pc' = "ranked"
    /\ UNCHANGED <<feature_store, query_features, top_n>>
    /\ UNCHANGED <<genVars, locVars, refVars, searchVars, expVars>>

RankNext == Query

SpecRank == RankInit /\ [][RankNext]_vars

----------------------------------------------------------------------------
(* _area_generator(): the generator, resumed until it is exhausted *)

\* target aspect ratios, width / height
Ratios == {<<1, 1>>, <<2, 1>>, <<1, 2>>, <<3, 2>>, <<2, 3>>}

\* values of max_aspect_ratio_div: the default, localize's and a wide one
RatioDivs == {DefaultRatioDiv, AspectRatioFactor, <<2, 1>>}

GenInit ==
    /\ pc = "generator"
    /\ shape \in (1..MaxSide) \X (1..MaxSide)
    /\ step_size \in 1..MaxStepSize
    /\ aspect_ratio \in Ratios \cup {NoRatio}
    /\ max_aspect_ratio_div \in RatioDivs
    /\ frame = Start
    /\ area = NoArea
    /\ features = None /\ exp = None /\ integral_image = None /\ value = None
    /\ RankIdle /\ RefIdle /\ SearchIdle /\ ExpIdle

\* next() on the generator: it runs to its next yield, or to its end
NextArea ==
    /\ pc \in {"generator", "yielded"}
    /\ LET n == Resume(shape, step_size, aspect_ratio, max_aspect_ratio_div, frame)
       IN  /\ frame' = n
           /\ IF n = Exhausted
              THEN pc' = "exhausted" /\ area' = area
              ELSE pc' = "yielded" /\ area' = AreaOf(n)
    /\ UNCHANGED <<shape, step_size, aspect_ratio, max_aspect_ratio_div>>
    /\ UNCHANGED <<features, exp, integral_image, value>>
    /\ UNCHANGED <<rankVars, refVars, searchVars, expVars>>

GenNext == NextArea

SpecAreas == GenInit /\ [][GenNext]_vars

----------------------------------------------------------------------------
(* Integral images: one is built from a feature map and an area is summed *)

\* the feature vectors of a cell; entries below zero are among them
Cells == {<<-1, 2>>, <<2, 0>>}

\* the widths of the feature maps
Widths == {1, 2, 3}

\* the exponents
Exps == {1, 2, AML_EXP}

FeatureMaps(cells, hs, ws) ==
    UNION {[0..(h - 1) -> [0..(w - 1) -> cells]] : h \in hs, w \in ws}

\* the areas of an image: 0 <= left <= right < W, 0 <= upper <= lower < H
ValidAreas(h, w) ==
    {<<x1, y1, x2, y2>> \in (0..(w - 1)) \X (0..(h - 1)) \X (0..(w - 1)) \X (0..(h - 1)) :
        x1 <= x2 /\ y1 <= y2}

IntInit ==
    /\ pc = "build"
    /\ features \in FeatureMaps(Cells, 1..MaxH, Widths)
    /\ exp \in Exps
    /\ integral_image = None
    /\ area = NoArea
    /\ value = None
    /\ RankIdle /\ GenIdle /\ RefIdle /\ SearchIdle /\ ExpIdle

\* integral_image = _compute_integral_image(features, exp)
BuildIntegral ==
    /\ pc = "build"
    /\ integral_image' = ComputeIntegralImage(features, exp)
    /\ pc' = "built"
    /\ UNCHANGED <<features, exp, area, value>>
    /\ UNCHANGED <<rankVars, genVars, refVars, searchVars, expVars>>

\* value = _integral_image_sum(integral_image, area)
AreaSum ==
    /\ pc = "built"
    /\ \E a \in ValidAreas(Height(integral_image), Width(integral_image)) :
        /\ area' = a
        /\ value' = IntegralImageSum(integral_image, a)
    /\ pc' = "summed"
    /\ UNCHANGED <<features, exp, integral_image>>
    /\ UNCHANGED <<rankVars, genVars, refVars, searchVars, expVars>>

IntNext == BuildIntegral \/ AreaSum

SpecIntegral == IntInit /\ [][IntNext]_vars

----------------------------------------------------------------------------
(* area_refinement(): one call, sweep by sweep *)

\* a feature map of background cells with a block of other cells
BlockMap(h, w, block, fg, bg) ==
    [y \in 0..(h - 1) |-> [x \in 0..(w - 1) |->
        IF block[1] <= x /\ x <= block[3] /\ block[2] <= y /\ y <= block[4]
        THEN fg ELSE bg]]

\* the feature maps refined on: no cell is the zero vector
BlockMaps(hs, ws, fg, bg) ==
    UNION {{BlockMap(h, w, b, fg, bg) : b \in ValidAreas(h, w)} : h \in hs, w \in ws}

\* the heights of the feature maps refined on
RefHeights == {1, 2}

\* the queries: along an axis for every exponent, others for exponent 1
AxisQueries == {<<1, 0>>, <<0, 1>>}

OtherQueries == {<<1, 1>>, <<2, -1>>}

RefInit ==
    /\ pc = "refine"
    /\ features \in BlockMaps(RefHeights, 1..MaxW, <<1, 2>>, <<2, 1>>)
    /\ \/ exp = AML_EXP /\ query \in AxisQueries
       \/ exp = 1 /\ query \in OtherQueries
    /\ integral_image = ComputeIntegralImage(features, exp)
    /\ area \in ValidAreas(Height(features), Width(features))
    /\ area_score = ComputeAreaScore(query, area, integral_image, exp)
    /\ best_area = area
    /\ best_score = area_score
    /\ step = MaxStep
    /\ it = 0
    /\ scored = <<>>
    /\ value = None
    /\ RankIdle /\ GenIdle /\ SearchIdle /\ ExpIdle

\* one pass of the inner loop of area_refinement, lines 132-156, and the
\* loops' move to the next pass
RefineSweep ==
    /\ pc = "refine"
    /\ \E r \in {Sweep(query, integral_image, exp, best_area, best_score, step)} :
        /\ best_area' = r[1]
        /\ best_score' = r[2]
    /\ scored' = SweepAreas(best_area, step, integral_image)
    /\ IF it + 1 < Iterations
       THEN it' = it + 1 /\ step' = step /\ pc' = pc
       ELSE IF step - 1 > 0
            THEN it' = 0 /\ step' = step - 1 /\ pc' = pc
            ELSE it' = it /\ step' = step /\ pc' = "refined"
    /\ UNCHANGED <<query, area_score, features, exp, integral_image, area, value>>
    /\ UNCHANGED <<rankVars, genVars, searchVars, expVars>>

RefNext == RefineSweep

SpecRefine == RefInit /\ [][RefNext]_vars

----------------------------------------------------------------------------
(* search_roi(): stage 1 and stage 2 *)

\* the stored representations and the query representations
SearchReprs == {<<1, 0>>, <<0, 1>>, <<1, 1>>}

\* the stored feature maps: 6 x 6, a 3 x 3 block in a corner
SearchMaps ==
    {BlockMap(6, 6, <<0, 0, 2, 2>>, <<1, 2>>, <<2, 1>>),
     BlockMap(6, 6, <<3, 3, 5, 5>>, <<0, 1>>, <<1, 0>>)}

\* (height, width) of the query crop
CropShapes == {<<1, 1>>, <<1, 2>>}

SearchInit ==
    /\ pc = "stage1"
    /\ \E n \in 1..MaxStore :
        /\ feature_store \in [0..(n - 1) -> SearchReprs]
        /\ get_features \in [0..(n - 1) -> SearchMaps]
    /\ query_repr \in SearchReprs
    /\ localization_repr \in AxisQueries
    /\ crop_shape \in CropShapes
    /\ top_n \in 0..(MaxStore + 1)
    /\ query_features = None /\ indices = None /\ sims = None
    /\ idx = None /\ bbox = None /\ score = None /\ refine_args = None
    /\ error = None
    /\ GenIdle /\ LocIdle /\ RefIdle /\ ExpIdle

\* step 1, line 89: indices, sims = query(query_repr, feature_store, top_n)
InitialRetrieval ==
    /\ pc = "stage1"
    /\ \E ix \in QueryIndices(query_repr, feature_store, top_n) :
        /\ indices' = ix
        /\ sims' = Take(Similarity(query_repr, feature_store), ix)
    /\ idx' = 0
    /\ pc' = "stage2"
    /\ UNCHANGED <<feature_store, query_features, top_n>>
    /\ UNCHANGED <<query_repr, localization_repr, crop_shape, get_features, bbox,
                   score, refine_args, error>>
    /\ UNCHANGED <<genVars, locVars, refVars, expVars>>

\* step 2, lines 101-107, for the candidate at position idx: its features
\* are fetched and localized, and the arguments of the area_refinement call
\* are evaluated.  A name bound nowhere raises NameError, which ends
\* search_roi.
LocalizeCandidate ==
    /\ pc = "stage2"
    /\ idx < Len(indices)
    /\ LET feature_idx == indices[idx + 1]
           r == Localize(localization_repr, get_features[feature_idx], crop_shape)
           bound == [i \in 1..Len(RefineCallNames) |-> Resolve(RefineCallNames[i])]
       IN  /\ features' = get_features[feature_idx]
           /\ bbox' = r[1]
           /\ score' = r[2]
           /\ refine_args' = bound
           /\ IF \E i \in 1..Len(bound) : bound[i][1] = "undefined"
              THEN error' = "NameError" /\ pc' = "raised"
              ELSE error' = error /\ pc' = "refine_call"
    /\ UNCHANGED <<exp, integral_image, area, value>>
    /\ UNCHANGED <<query_repr, localization_repr, crop_shape, get_features, idx>>
    /\ UNCHANGED <<rankVars, genVars, refVars, expVars>>

SearchNext == InitialRetrieval \/ LocalizeCandidate

SpecSearch == SearchInit /\ [][SearchNext]_vars

----------------------------------------------------------------------------
(* search_roi(): the re-ranking and stage 3, lines 113-124, on what stage  *)
(* 2 would hand over for n candidates                                      *)

\* cropped representations of n candidates: all different, in rising and in
\* falling order, or equal in pairs
CroppedReprs(n) ==
    {[i \in 0..(n - 1) |-> <<i + 1, 1>>],
     [i \in 0..(n - 1) |-> <<n - i, 1>>],
     [i \in 0..(n - 1) |-> <<(i \div 2) + 1, 1>>]}

\* the query representations of stage 3
ExpQueries == {<<1, 0>>, <<1, 1>>}

ExpInit ==
    /\ pc = "rerank"
    /\ \E n \in 1..MaxCand : bounding_box_reprs \in CroppedReprs(n)
    /\ query_repr \in ExpQueries
    /\ reranking_indices = <<>>
    /\ sims = <<>>
    /\ avg_repr = None
    /\ exp_indices = <<>>
    /\ similarity = <<>>
    /\ feature_store = None /\ query_features = None /\ top_n = None
    /\ indices = None
    /\ localization_repr = None /\ crop_shape = None /\ get_features = None
    /\ idx = None /\ bbox = None /\ score = None /\ refine_args = None
    /\ error = None
    /\ GenIdle /\ LocIdle /\ RefIdle

\* line 113: reranking_indices, sims = query(query_repr, bounding_box_reprs)
Rerank ==
    /\ pc = "rerank"
    /\ \E ix \in QueryIndices(query_repr, bounding_box_reprs, 0) :
        /\ reranking_indices' = ix
        /\ sims' = Take(Similarity(query_repr, bounding_box_reprs), ix)
    /\ pc' = "expand"
    /\ UNCHANGED <<bounding_box_reprs, avg_repr, exp_indices, similarity>>
    /\ UNCHANGED <<feature_store, query_features, top_n, indices>>
    /\ UNCHANGED <<genVars, locVars, refVars, searchVars>>

\* step 3, lines 121-124: the average query expansion.  The similarities to
\* the mean sum / count are the dot products with sum, over count; their
\* order is that of the dot products with sum.
AverageQueryExpansion ==
    /\ pc = "expand"
    /\ LET avg == AverageRepr(bounding_box_reprs,
                              BestRerankIndices(reranking_indices), query_repr)
       IN  /\ avg_repr' = avg
           /\ \E ix \in QueryIndices(avg.sum, bounding_box_reprs, 0) :
                /\ exp_indices' = ix
                /\ similarity' =
                     [i \in 1..Len(ix) |->
                        <<Dot(bounding_box_reprs[ix[i]], avg.sum), avg.count>>]
    /\ pc' = "expanded"
    /\ UNCHANGED <<bounding_box_reprs, reranking_indices>>
    /\ UNCHANGED <<rankVars, genVars, locVars, refVars, searchVars>>

ExpNext == Rerank \/ AverageQueryExpansion

SpecExpand == ExpInit /\ [][ExpNext]_vars

----------------------------------------------------------------------------
(* Properties of query() *)

\* non-increasing: each entry is at least the next
Descending(s) == \A i \in 1..(Len(s) - 1) : s[i] >= s[i + 1]

StrictlyDescending(s) == \A i \in 1..(Len(s) - 1) : s[i] > s[i + 1]

\* the indices returned are distinct, min(k, N) many, those of the largest
\* dot products with the query, and each similarity is that of its index
ReturnsLargest(k) ==
    /\ Len(indices) = Min(k, Len0(feature_store))
    /\ Cardinality(Range(indices)) = Len(indices)
    /\ Range(indices) \subseteq DOMAIN feature_store
    /\ \A i \in Range(indices) : \A j \in (DOMAIN feature_store) \ Range(indices) :
            Dot(feature_store[j], query_features) <= Dot(feature_store[i], query_features)
    /\ Len(sims) = Len(indices)
    /\ \A i \in 1..Len(indices) :
            sims[i] = Dot(feature_store[indices[i]], query_features)

\* C1 as stated: for top_n = k > 0 query returns min(k, N) distinct indices,
\* those of the largest dot products, each with its dot product, and the
\* similarities are strictly descending.
C1_StrictlyDescending ==
    (pc = "ranked" /\ top_n > 0) => ReturnsLargest(top_n) /\ StrictlyDescending(sims)

\* C1 amended: as C1, with the similarities in non-increasing order (equal
\* dot products are returned next to each other, in either order).
C1_TopKDescending ==
    (pc = "ranked" /\ top_n > 0) => ReturnsLargest(top_n) /\ Descending(sims)

\* a call with 0 < top_n < N that returned two equal similarities
C1_Witness ==
    /\ pc = "ranked" /\ top_n > 1 /\ top_n < Len0(feature_store)
    /\ Len(indices) = top_n
    /\ \E i \in 1..(Len(sims) - 1) : sims[i] = sims[i + 1]

\* C2: for top_n = 0 query returns all N indices, a permutation of range(N),
\* by descending similarity, although k = min(N, |top_n|) is 0.
C2_TopNZeroReturnsAll ==
    (pc = "ranked" /\ top_n = 0) =>
        /\ Min(Len0(feature_store), Abs(top_n)) = 0
        /\ Len(indices) = Len0(feature_store)
        /\ Range(indices) = DOMAIN feature_store
        /\ \A i \in 1..Len(indices) :
                sims[i] = Dot(feature_store[indices[i]], query_features)
        /\ Descending(sims)

\* a call with top_n = 0 on three or more vectors of different similarity
C2_Witness ==
    /\ pc = "ranked" /\ top_n = 0
    /\ Len(indices) >= 3
    /\ sims[1] > sims[Len(sims)]

----------------------------------------------------------------------------
(* Properties of _area_generator() *)

AreaWidth(a) == a[3] - a[1] + 1

AreaHeight(a) == a[4] - a[2] + 1

\* 0 <= left <= right < W and 0 <= upper <= lower < H
ValidArea(a, h, w) ==
    /\ 0 <= a[1] /\ a[1] <= a[3] /\ a[3] < w
    /\ 0 <= a[2] /\ a[2] <= a[4] /\ a[4] < h

\* |log(t / (w / h))| <= log(m) for the area a: t / (w / h) is at most m
\* and at least 1 / m
WithinLogBound(t, a, m) ==
    /\ t[1] * AreaHeight(a) * m[2] <= m[1] * t[2] * AreaWidth(a)
    /\ t[2] * AreaWidth(a) * m[2] <= m[1] * t[1] * AreaHeight(a)

\* C5: every area yielded lies in the grid, and with the filter active its
\* aspect ratio is within the factor max_ratio_div of the target ratio.
C5_EnumerationBounds ==
    pc = "yielded" =>
        /\ ValidArea(area, shape[1], shape[2])
        /\ aspect_ratio # NoRatio =>
                WithinLogBound(aspect_ratio, area, max_aspect_ratio_div)

\* a yielded area away from the left and upper edge that is not a square,
\* with the filter active
C5_Witness ==
    /\ pc = "yielded" /\ aspect_ratio # NoRatio
    /\ area[1] > 0 /\ area[2] > 0
    /\ AreaWidth(area) # AreaHeight(area)
    /\ area[3] = shape[2] - 1

\* 1 / t
Inverse(t) == <<t[2], t[1]>>

\* the loop counters of every area of the grid, filtered or not
GridCandidates(sh, st) ==
    {c \in (0..(sh[2] - 1)) \X (0..(sh[2] - 1)) \X (0..(sh[1] - 1)) \X (0..(sh[1] - 1)) :
        /\ c[1] % st = 0 /\ c[2] >= c[1] /\ (c[2] - c[1] + 1) % st = 0
        /\ c[3] % st = 0 /\ c[4] >= c[3] /\ (c[4] - c[3] + 1) % st = 0}

\* the aspect ratios of a and b lie on either side of the target t, as far
\* from it: (wa / ha) * (wb / hb) = t * t
Mirrored(a, b, t) ==
    AreaWidth(a) * AreaWidth(b) * t[2] * t[2] = AreaHeight(a) * AreaHeight(b) * t[1] * t[1]

\* C9 as stated: an area yielded with target ratio t is yielded with target
\* ratio 1 / t as well (max_ratio_div >= 1).
C9_SymmetricInTarget ==
    (pc = "yielded" /\ aspect_ratio # NoRatio
        /\ max_aspect_ratio_div[1] >= max_aspect_ratio_div[2]) =>
        ~Skipped(Inverse(aspect_ratio), max_aspect_ratio_div, frame)

\* C9 amended: the filter is symmetric about the target ratio: when an area
\* is yielded, every area of the grid whose aspect ratio is as far from the
\* target on the other side is kept too; for target ratio 1 an area twice as
\* wide as tall is filtered as one twice as tall as wide.
C9_SymmetricAboutTarget ==
    (pc = "yielded" /\ aspect_ratio # NoRatio
        /\ max_aspect_ratio_div[1] >= max_aspect_ratio_div[2]) =>
        \A c \in GridCandidates(shape, step_size) :
            Mirrored(area, AreaOf(c), aspect_ratio) =>
                ~Skipped(aspect_ratio, max_aspect_ratio_div, c)

\* an area twice as wide as tall yielded for target ratio 1, with an area
\* twice as tall as wide on the grid
C9_Witness ==
    /\ pc = "yielded" /\ aspect_ratio = <<1, 1>>
    /\ AreaWidth(area) = 2 * AreaHeight(area)
    /\ \E c \in GridCandidates(shape, step_size) :
            AreaHeight(AreaOf(c)) = 2 * AreaWidth(AreaOf(c))

----------------------------------------------------------------------------
(* Properties of the integral image *)

RECURSIVE SumOver(_, _, _, _)
\* the sum of feature_map ^ e in channel c over a set of cells <<x, y>>
SumOver(fm, e, c, cells) ==
    IF cells = {} THEN 0
    ELSE LET p == CHOOSE p \in cells : TRUE
         IN  Pow(fm[p[2]][p[1]][c], e) + SumOver(fm, e, c, cells \ {p})

\* the sum of feature_map ^ e over exactly the cells of the area a
BruteForce(fm, e, a) ==
    [c \in 1..2 |-> SumOver(fm, e, c, (a[1]..a[3]) \X (a[2]..a[4]))]

\* C6 as stated: area_sum equals the brute-force sum, for any feature map.
C6_EqualsBruteForce ==
    pc = "summed" => value = BruteForce(features, exp, area)

\* C6 amended: per channel area_sum is the brute-force sum where that is at
\* least 0 and 0 where it is below; for the full image as for any area.
C6_ClampedBruteForce ==
    pc = "summed" =>
        \A c \in 1..2 : value[c] = Max(0, BruteForce(features, exp, area)[c])

\* an area away from the left and upper edge, of several cells, whose sum is
\* above zero in a channel
C6_Witness ==
    /\ pc = "summed"
    /\ area[1] > 0 /\ area[2] > 0 /\ area[3] > area[1]
    /\ value[1] > 0
    /\ value = BruteForce(features, exp, area)

----------------------------------------------------------------------------
(* Properties of area_refinement() *)

\* a >= b of two scores
ScoreGE(a, b) == ~ScoreGT(b, a)

\* C4: the score of the returned area, computed anew, is at least the
\* area_score passed in, and the committed best score never decreases from
\* one sweep to the next.
C4_RefinementMonotone ==
    /\ [](pc = "refined" =>
            ScoreGE(ComputeAreaScore(query, best_area, integral_image, exp), area_score))
    /\ [][ScoreGE(best_score', best_score)]_vars

\* a refinement that returned another area with a higher score
C4_Witness ==
    /\ pc = "refined"
    /\ best_area # area
    /\ ScoreGT(ComputeAreaScore(query, best_area, integral_image, exp), area_score)

\* C10: every area scored in a sweep and every committed best area is an
\* area of the integral image.
C10_AreasStayValid ==
    pc \in {"refine", "refined"} =>
        /\ ValidArea(best_area, Height(integral_image), Width(integral_image))
        /\ \A i \in 1..Len(scored) :
                ValidArea(scored[i], Height(integral_image), Width(integral_image))

\* a sweep with a step below max_step, after the best area has moved, in
\* which a move was limited by the opposite coordinate and one by the image
C10_Witness ==
    /\ pc = "refine" /\ step < MaxStep /\ Len(scored) = 8
    /\ best_area # area
    /\ \E i \in 1..8 : scored[i][3] = scored[i][1] /\ scored[i] # best_area
    /\ \E i \in 1..8 : scored[i][3] = Width(integral_image) - 1 /\ scored[i] # best_area

----------------------------------------------------------------------------
(* Properties of search_roi() *)

\* C3: a search with at least one stage-1 candidate ends by returning, one
\* (index, similarity, bounding box) per candidate, the indices a
\* permutation of the stage-1 candidates.
C3_SearchReturnsTriples ==
    (pc \notin {"stage1", "stage2"} /\ Len(indices) >= 1) =>
        /\ error = None
        /\ Len(exp_indices) = Len(indices)
        /\ Len(similarity) = Len(indices)
        /\ {indices[exp_indices[i] + 1] : i \in 1..Len(exp_indices)} = Range(indices)

\* C7: the area_refinement call of stage 2 is given the candidate's own
\* values: the localization representation, the area and the score localize
\* returned, and a value of this pass of the loop for the integral image.
C7_RefineGivenOwnValues ==
    pc \in {"raised", "refine_call"} =>
        /\ refine_args[1] = <<"local", "localization_repr">>
        /\ refine_args[2] = <<"local", "bbox">>
        /\ refine_args[3] = <<"local", "score">>
        /\ refine_args[4][1] = "local"

RECURSIVE SumFirst(_, _, _, _)
\* the sum, in channel c, of the representations of the first n entries of ix
SumFirst(reprs, ix, n, c) ==
    IF n = 0 THEN 0 ELSE reprs[ix[n]][c] + SumFirst(reprs, ix, n - 1, c)

====
